---- MODULE Spec2Model ----
(***************************************************************************)
(* State-machine model of the multiplayer Tetris client (src/src/App.tsx). *)
(* The variables are the component's React state and the WebSocket ref;    *)
(* every action is one event handler, run to completion against the state  *)
(* of the render it was created in (its closure), as React does.           *)
(***************************************************************************)
EXTENDS Integers, Sequences, FiniteSets, TLC

\* ------------------------------------------------------------ constants

BOARD_WIDTH == 10
BOARD_HEIGHT == 20

\* Tetromino shapes I, O, T, S, Z, J, L, in the order of Object.values.
TETROMINOS ==
  << << <<1, 1, 1, 1>> >>,
     << <<1, 1>>, <<1, 1>> >>,
     << <<0, 1, 0>>, <<1, 1, 1>> >>,
     << <<0, 1, 1>>, <<1, 1, 0>> >>,
     << <<1, 1, 0>>, <<0, 1, 1>> >>,
     << <<1, 0, 0>>, <<1, 1, 1>> >>,
     << <<0, 0, 1>>, <<1, 1, 1>> >> >>

\* ------------------------------------------------ bounds of the model

\* Locks the player may perform after leaving the scripted line of play.
MaxLocks == 1
\* Lateral and rotation key presses the player may make off the script.
MaxFreeKeys == 0
\* WebSocket objects created during one page life.
MaxSockets == 1
\* Rows of the window that holds the patterned rows of an input board.
PureDepth == 4
\* WebSocket objects and pending create-room requests of the session runs.
MaxNetSockets == 2

\* --------------------------------------------------------------- state

VARIABLES
  board,          \* useState board: BOARD_HEIGHT rows of BOARD_WIDTH cells
  currentPiece,   \* useState currentPiece: a shape, or Null
  piecePosition,  \* useState piecePosition: [x, y]
  score,          \* useState score
  gameOver,       \* useState gameOver
  gameStarted,    \* useState gameStarted
  connected,      \* useState connected
  sockets,        \* readyState of every WebSocket created so far
  wsCurrent,      \* ws.current: index into sockets, 0 for null
  socketRoom,     \* the room in the URL of every WebSocket created so far
  fetches,        \* createRoom calls whose fetch has not yet settled
  roomId,         \* useState roomId
  playerId,       \* useState playerId
  opponentBoard,  \* useState opponentBoard
  sent,           \* the ws.current.send calls of the handler that ran last
  linesCleared,   \* placePiece's local linesCleared, at the last lock
  newPiece,       \* placePiece's local newPiece, at the last lock
  locks,          \* placePiece runs inside the handler that ran last
  scriptPos,      \* player: entry of Script being played, 0 when off it
  keyIdx,         \* player: keys of that entry already pressed
  freeKeys,       \* player: off-script lateral/rotation keys pressed
  freeLocks,      \* player: off-script locks performed
  pc              \* "run" for the component; phases of the function harness

gameVars == <<board, currentPiece, piecePosition, score, gameOver, gameStarted>>
netVars == <<connected, sockets, wsCurrent>>
lockVars == <<linesCleared, newPiece>>
playerVars == <<scriptPos, keyIdx, freeKeys, freeLocks>>
sessionVars == <<socketRoom, fetches, roomId, playerId, opponentBoard>>
vars == <<gameVars, netVars, sessionVars, sent, lockVars, locks, playerVars, pc>>

Null == <<>>

\* ------------------------------------------------------- pure functions

EmptyRow == [c \in 1..BOARD_WIDTH |-> 0]
EmptyBoard == [r \in 1..BOARD_HEIGHT |-> EmptyRow]

\* The values getRandomPiece can return.
getRandomPiece == {TETROMINOS[i] : i \in DOMAIN TETROMINOS}

\* Mutant of startX: the difference is halved, not the two terms.
startXHalvedDifference(piece) == (BOARD_WIDTH - Len(piece[1])) \div 2

\* Spawn column: floor(BOARD_WIDTH / 2) - floor(piece[0].length / 2).
startX(piece) == (BOARD_WIDTH \div 2) - (Len(piece[1]) \div 2)

\* Mutant of rotated: the rows are reversed but not turned into columns.
rotatedRowsReversed(piece) ==
  [i \in 1..Len(piece) |-> piece[Len(piece) + 1 - i]]

\* ArrowUp: currentPiece[0].map((_, i) => currentPiece.map(row => row[i]).reverse())
rotated(piece) ==
  [i \in 1..Len(piece[1]) |->
     [j \in 1..Len(piece) |-> piece[Len(piece) + 1 - j][i]]]

\* Mutant of canMove: the collision test is missing.
canMoveBoundsOnly(b, piece, x, y) ==
  \A row \in 0..(Len(piece) - 1) :
    \A col \in 0..(Len(piece[row + 1]) - 1) :
      piece[row + 1][col + 1] # 0 =>
        ~(x + col < 0 \/ x + col >= BOARD_WIDTH \/ y + row >= BOARD_HEIGHT)

\* Mutant of canMove: the test newX < 0 is missing; a read left of the grid
\* yields undefined, which is no collision.
canMoveNoLeftWall(b, piece, x, y) ==
  \A row \in 0..(Len(piece) - 1) :
    \A col \in 0..(Len(piece[row + 1]) - 1) :
      piece[row + 1][col + 1] # 0 =>
        LET newX == x + col
            newY == y + row
        IN /\ ~(newX >= BOARD_WIDTH \/ newY >= BOARD_HEIGHT)
           /\ ~(newY >= 0 /\ newX >= 0 /\ b[newY + 1][newX + 1] # 0)

\* canMove against board b (the closure's board); x, y, row, col 0-based.
canMove(b, piece, x, y) ==
  \A row \in 0..(Len(piece) - 1) :
    \A col \in 0..(Len(piece[row + 1]) - 1) :
      piece[row + 1][col + 1] # 0 =>
        LET newX == x + col
            newY == y + row
        IN /\ ~(newX < 0 \/ newX >= BOARD_WIDTH \/ newY >= BOARD_HEIGHT)
           /\ ~(newY >= 0 /\ b[newY + 1][newX + 1] # 0)

\* Whether the piece at offset (x, y) covers the 0-based cell (r, c).
Covers(piece, x, y, r, c) ==
  /\ r - y \in 0..(Len(piece) - 1)
  /\ c - x \in 0..(Len(piece[r - y + 1]) - 1)
  /\ piece[r - y + 1][c - x + 1] # 0

\* Mutant of addPiece: the cells are written with the Active marker 2.
addPieceActive(b, piece, x, y) ==
  [r \in 1..BOARD_HEIGHT |->
     [c \in 1..BOARD_WIDTH |->
        IF Covers(piece, x, y, r - 1, c - 1) THEN 2 ELSE b[r][c]]]

\* placePiece, "Add current piece to board": newBoard[y][x] = 1 for the
\* occupied cells with y >= 0 (writes that fall inside the grid).
addPiece(b, piece, x, y) ==
  [r \in 1..BOARD_HEIGHT |->
     [c \in 1..BOARD_WIDTH |->
        IF Covers(piece, x, y, r - 1, c - 1) THEN 1 ELSE b[r][c]]]

\* newBoard[row].every(cell => cell === 1)
rowComplete(row) == \A c \in 1..Len(row) : row[c] = 1

\* newBoard.splice(row, 1); newBoard.unshift(Array(BOARD_WIDTH).fill(0)); row 1-based.
spliceUnshift(b, row) ==
  <<EmptyRow>> \o SubSeq(b, 1, row - 1) \o SubSeq(b, row + 1, Len(b))

\* Mutant of clearLoop: the row++ after a cleared line is missing.
RECURSIVE clearLoopNoRecheck(_, _, _)
clearLoopNoRecheck(b, row, n) ==
  IF row < 0 THEN [board |-> b, linesCleared |-> n]
  ELSE IF rowComplete(b[row + 1])
       THEN clearLoopNoRecheck(spliceUnshift(b, row + 1), row - 1, n + 1)
       ELSE clearLoopNoRecheck(b, row - 1, n)

\* The loop "for (row = BOARD_HEIGHT - 1; row >= 0; row--)" with its row++ on a
\* cleared line; row is the 0-based loop variable.
RECURSIVE clearLoop(_, _, _)
clearLoop(b, row, n) ==
  IF row < 0 THEN [board |-> b, linesCleared |-> n]
  ELSE IF rowComplete(b[row + 1])
       THEN clearLoop(spliceUnshift(b, row + 1), row, n + 1)
       ELSE clearLoop(b, row - 1, n)

\* placePiece, "Check for completed lines".
clearLines(b) == clearLoop(b, BOARD_HEIGHT - 1, 0)

\* Mutant of updatedScore: the score is set, not added to.
updatedScoreSet(prev, n) == n * 100

\* placePiece, "Update score".
updatedScore(prev, n) == IF n > 0 THEN prev + n * 100 ELSE prev

\* The board canMove reads at the spawn check of placePiece: canMove closes
\* over the board of the render, not over newBoard.
spawnCheckBoard(oldBoard, newBoard) == oldBoard

\* The score placePiece puts in its messages: the score of the render.
messageScore(oldScore, newScore) == oldScore

\* Mutant of lockSends: the game-over branch lacks its return.
lockSendsNoReturn(hasSocket, conn, over, newBoard, s) ==
  IF hasSocket /\ conn
  THEN (IF over THEN << [type |-> "game_over", score |-> s] >> ELSE <<>>)
       \o << [type |-> "game_state", board |-> newBoard, score |-> s] >>
  ELSE <<>>

\* Mutant of lockSends: the sends are not guarded by the connected flag.
lockSendsIgnoringFlag(hasSocket, conn, over, newBoard, s) ==
  IF hasSocket
  THEN IF over THEN << [type |-> "game_over", score |-> s] >>
       ELSE << [type |-> "game_state", board |-> newBoard, score |-> s] >>
  ELSE <<>>

\* The send calls of one placePiece run.
lockSends(hasSocket, conn, over, newBoard, s) ==
  IF hasSocket /\ conn
  THEN IF over THEN << [type |-> "game_over", score |-> s] >>
       ELSE << [type |-> "game_state", board |-> newBoard, score |-> s] >>
  ELSE <<>>

\* Mutant of returnsEarly: the gameOver test is missing.
returnsEarlyNoGameOver(piece, over) == piece = Null

\* "if (!currentPiece || gameOver) return" of moveDown and handleKeyPress.
returnsEarly(piece, over) == piece = Null \/ over

\* Mutant of lateralPosition: the move is not guarded by canMove.
lateralPositionUnchecked(b, piece, pos, dx) == [pos EXCEPT !.x = pos.x + dx]

\* ArrowLeft / ArrowRight: the position after the guarded setPiecePosition.
lateralPosition(b, piece, pos, dx) ==
  IF canMove(b, piece, pos.x + dx, pos.y) THEN [pos EXCEPT !.x = pos.x + dx] ELSE pos

\* ArrowUp: the shape after the guarded setCurrentPiece.
rotatedPiece(b, piece, pos) ==
  IF canMove(b, rotated(piece), pos.x, pos.y) THEN rotated(piece) ELSE piece

\* renderBoard: the grid displayed for boardData; the active piece is laid
\* over it as 2 on the player's own board only.
renderBoard(boardData, isOpponent, piece, pos) ==
  [r \in 1..Len(boardData) |->
     [c \in 1..Len(boardData[r]) |->
        IF /\ ~isOpponent
           /\ piece # Null
           /\ Covers(piece, pos.x, pos.y, r - 1, c - 1)
           /\ r - 1 >= 0 /\ r - 1 < BOARD_HEIGHT /\ c - 1 >= 0 /\ c - 1 < BOARD_WIDTH
        THEN 2 ELSE boardData[r][c]]]

\* Mutant of opponentSnapshot: the grid is merged into the previous snapshot.
opponentSnapshotMerged(prev, grid) ==
  [r \in 1..BOARD_HEIGHT |->
     [c \in 1..BOARD_WIDTH |-> IF prev[r][c] = 1 THEN 1 ELSE grid[r][c]]]

\* onmessage, 'opponent_state': setOpponentBoard(message.state.board).
opponentSnapshot(prev, grid) == grid

\* ------------------------------------------------------ the environment

\* Room identifiers the user types and the server hands out.
RoomNames == {"A", "B"}

\* Player identifiers the server assigns.
PlayerNames == {"p1", "p2"}

\* Grids the peer reports: a half-filled bottom row, and a single cell.
OpponentGrids ==
  { [r \in 1..BOARD_HEIGHT |->
       [c \in 1..BOARD_WIDTH |->
          IF r = BOARD_HEIGHT /\ c <= BOARD_WIDTH \div 2 THEN 1 ELSE 0]],
    [r \in 1..BOARD_HEIGHT |->
       [c \in 1..BOARD_WIDTH |-> IF r = BOARD_HEIGHT /\ c = 1 THEN 1 ELSE 0]] }

\* Messages the server delivers; "ping" is a type the client does not know.
Messages ==
  {[type |-> "player_id", player_id |-> p] : p \in PlayerNames}
    \cup {[type |-> "player_joined", player_id |-> "p2"]}
    \cup {[type |-> "opponent_state", board |-> g] : g \in OpponentGrids}
    \cup {[type |-> "player_game_over", score |-> 100], [type |-> "ping"]}

\* ---------------------------------------------------------- the player

\* The scripted line of play: for each piece in turn, the shape the random
\* source has to deliver (index into TETROMINOS) and the keys pressed before
\* the piece is left to fall.  The player may leave the script at any point.
KeysI(n, key) == [i \in 1..n |-> key]
Script ==
  << [piece |-> 1, keys |-> KeysI(4, "ArrowLeft")],
     [piece |-> 1, keys |-> KeysI(1, "ArrowRight")],
     [piece |-> 1, keys |-> <<"ArrowUp">> \o KeysI(5, "ArrowRight")],
     [piece |-> 1, keys |-> <<"ArrowUp">> \o KeysI(6, "ArrowRight") \o <<"ArrowUp">>],
     [piece |-> 3, keys |-> KeysI(1, "ArrowRight")],
     [piece |-> 1, keys |-> <<"ArrowUp", "ArrowRight">>],
     [piece |-> 1, keys |-> <<"ArrowUp", "ArrowRight">>],
     [piece |-> 1, keys |-> <<"ArrowUp", "ArrowRight">>],
     [piece |-> 1, keys |-> <<"ArrowUp", "ArrowRight">>],
     [piece |-> 1, keys |-> <<"ArrowUp", "ArrowRight">>],
     [piece |-> 1, keys |-> <<"ArrowUp", "ArrowUp", "ArrowRight">>
                            \o KeysI(3, "ArrowLeft") \o <<"ArrowUp">>] >>

OnScript(key) ==
  /\ scriptPos > 0
  /\ keyIdx < Len(Script[scriptPos].keys)
  /\ Script[scriptPos].keys[keyIdx + 1] = key

OnScriptDescent == scriptPos > 0 /\ keyIdx = Len(Script[scriptPos].keys)

LeaveScript == scriptPos' = 0 /\ keyIdx' = 0

\* Off the script the player acts only while locks remain to be spent.
MayPlay == freeLocks < MaxLocks

\* The free player (scriptPos < 0) follows no script and presses any key at
\* any time; only the pieces locked are counted.
FreePlayer == scriptPos < 0

\* Bookkeeping of a lateral or rotation key pressed while a piece falls.
PlayerKey(key) ==
  IF FreePlayer THEN MayPlay /\ UNCHANGED playerVars
  ELSE IF OnScript(key)
  THEN keyIdx' = keyIdx + 1 /\ UNCHANGED <<scriptPos, freeKeys, freeLocks>>
  ELSE /\ MayPlay
       /\ freeKeys < MaxFreeKeys
       /\ freeKeys' = freeKeys + 1
       /\ LeaveScript
       /\ UNCHANGED freeLocks

\* Bookkeeping of a descent (tick or ArrowDown) that moves the piece down.
PlayerFall ==
  IF FreePlayer THEN MayPlay /\ UNCHANGED playerVars
  ELSE IF OnScriptDescent THEN UNCHANGED playerVars
  ELSE MayPlay /\ LeaveScript /\ UNCHANGED <<freeKeys, freeLocks>>

\* Bookkeeping of a descent that locks; newPiece' is the piece the random
\* source delivered.
PlayerLock ==
  IF FreePlayer
  THEN MayPlay /\ freeLocks' = freeLocks + 1 /\ UNCHANGED <<scriptPos, keyIdx, freeKeys>>
  ELSE IF OnScriptDescent
  THEN /\ scriptPos' = IF /\ scriptPos < Len(Script)
                          /\ ~gameOver'
                          /\ newPiece' = TETROMINOS[Script[scriptPos + 1].piece]
                       THEN scriptPos + 1 ELSE 0
       /\ keyIdx' = 0
       /\ UNCHANGED <<freeKeys, freeLocks>>
  ELSE /\ MayPlay
       /\ freeLocks' = freeLocks + 1
       /\ LeaveScript
       /\ UNCHANGED freeKeys

\* ------------------------------------------------------------- handlers

Init ==
  /\ board = EmptyBoard
  /\ currentPiece = Null
  /\ piecePosition = [x |-> 0, y |-> 0]
  /\ score = 0
  /\ gameOver = FALSE
  /\ gameStarted = FALSE
  /\ connected = FALSE
  /\ sockets = <<>>
  /\ wsCurrent = 0
  /\ socketRoom = <<>>
  /\ fetches = 0
  /\ roomId = ""
  /\ playerId = ""
  /\ opponentBoard = EmptyBoard
  /\ sent = <<>>
  /\ linesCleared = 0
  /\ newPiece = Null
  /\ locks = 0
  /\ scriptPos = 0
  /\ keyIdx = 0
  /\ freeKeys = 0
  /\ freeLocks = 0
  /\ pc = "run"

\* placePiece; np is the piece getRandomPiece returns.
placePiece ==
  IF currentPiece = Null
  THEN UNCHANGED <<gameVars, lockVars>> /\ sent' = <<>> /\ locks' = 0
  ELSE \E cleared \in {clearLines(addPiece(board, currentPiece,
                                           piecePosition.x, piecePosition.y))} :
       \E np \in getRandomPiece :
       LET newBoard == cleared.board
           newScore == updatedScore(score, cleared.linesCleared)
           spawns == canMove(spawnCheckBoard(board, newBoard), np, startX(np), 0)
       IN /\ score' = newScore
          /\ board' = newBoard
          /\ linesCleared' = cleared.linesCleared
          /\ newPiece' = np
          /\ locks' = 1
          /\ gameOver' = IF spawns THEN gameOver ELSE TRUE
          /\ currentPiece' = IF spawns THEN np ELSE currentPiece
          /\ piecePosition' = IF spawns THEN [x |-> startX(np), y |-> 0]
                              ELSE piecePosition
          /\ sent' = lockSends(wsCurrent # 0, connected, ~spawns, newBoard,
                               messageScore(score, newScore))
          /\ UNCHANGED gameStarted

\* Mutant of moveDown: a piece that cannot move down is not placed.
moveDownNeverLocks ==
  IF /\ ~returnsEarly(currentPiece, gameOver)
     /\ canMove(board, currentPiece, piecePosition.x, piecePosition.y + 1)
  THEN /\ piecePosition' = [piecePosition EXCEPT !.y = piecePosition.y + 1]
       /\ UNCHANGED <<board, currentPiece, score, gameOver, gameStarted>>
       /\ UNCHANGED lockVars
       /\ sent' = <<>>
       /\ locks' = 0
       /\ PlayerFall
  ELSE UNCHANGED <<gameVars, lockVars, playerVars>> /\ sent' = <<>> /\ locks' = 0

\* moveDown.
moveDown ==
  IF returnsEarly(currentPiece, gameOver)
  THEN UNCHANGED <<gameVars, lockVars, playerVars>> /\ sent' = <<>> /\ locks' = 0
  ELSE IF canMove(board, currentPiece, piecePosition.x, piecePosition.y + 1)
       THEN /\ piecePosition' = [piecePosition EXCEPT !.y = piecePosition.y + 1]
            /\ UNCHANGED <<board, currentPiece, score, gameOver, gameStarted>>
            /\ UNCHANGED lockVars
            /\ sent' = <<>>
            /\ locks' = 0
            /\ PlayerFall
       ELSE placePiece /\ PlayerLock

\* The game loop: the interval exists while gameStarted && !gameOver.
Tick ==
  /\ pc = "run"
  /\ gameStarted /\ ~gameOver
  /\ moveDown
  /\ UNCHANGED <<netVars, sessionVars, pc>>

\* handleKeyPress, case 'ArrowLeft' (dx = -1) and 'ArrowRight' (dx = 1).
Lateral(key, dx) ==
  /\ pc = "run"
  /\ sent' = <<>>
  /\ locks' = 0
  /\ IF returnsEarly(currentPiece, gameOver)
     THEN UNCHANGED <<gameVars, playerVars>>
     ELSE /\ piecePosition' = lateralPosition(board, currentPiece, piecePosition, dx)
          /\ UNCHANGED <<board, currentPiece, score, gameOver, gameStarted>>
          /\ PlayerKey(key)
  /\ UNCHANGED <<netVars, sessionVars, lockVars, pc>>

ArrowLeft == Lateral("ArrowLeft", -1)

ArrowRight == Lateral("ArrowRight", 1)

\* handleKeyPress, case 'ArrowDown'.
ArrowDown ==
  /\ pc = "run"
  /\ IF returnsEarly(currentPiece, gameOver)
     THEN UNCHANGED <<gameVars, lockVars, playerVars>> /\ sent' = <<>> /\ locks' = 0
     ELSE moveDown
  /\ UNCHANGED <<netVars, sessionVars, pc>>

\* handleKeyPress, case 'ArrowUp'.
ArrowUp ==
  /\ pc = "run"
  /\ sent' = <<>>
  /\ locks' = 0
  /\ IF returnsEarly(currentPiece, gameOver)
     THEN UNCHANGED <<gameVars, playerVars>>
     ELSE /\ currentPiece' = rotatedPiece(board, currentPiece, piecePosition)
          /\ UNCHANGED <<board, piecePosition, score, gameOver, gameStarted>>
          /\ PlayerKey("ArrowUp")
  /\ UNCHANGED <<netVars, sessionVars, lockVars, pc>>

\* startGame; its button is rendered while connected && !gameStarted.
startGame ==
  /\ pc = "run"
  /\ connected /\ ~gameStarted
  /\ \E firstPiece \in getRandomPiece :
       /\ board' = EmptyBoard
       /\ score' = 0
       /\ gameOver' = FALSE
       /\ currentPiece' = firstPiece
       /\ piecePosition' = [x |-> startX(firstPiece), y |-> 0]
       /\ gameStarted' = TRUE
       /\ scriptPos' = IF FreePlayer THEN scriptPos
                       ELSE IF firstPiece = TETROMINOS[Script[1].piece] THEN 1 ELSE 0
  /\ keyIdx' = 0
  /\ sent' = <<>>
  /\ locks' = 0
  /\ UNCHANGED <<netVars, sessionVars, lockVars, freeKeys, freeLocks, pc>>

\* connectWebSocket(room): a new socket to the room becomes ws.current; the
\* socket that was current is neither closed nor stripped of its handlers.
connectWebSocket(room) ==
  /\ sockets' = Append(sockets, "CONNECTING")
  /\ socketRoom' = Append(socketRoom, room)
  /\ wsCurrent' = Len(sockets) + 1

\* joinRoom(roomId), the Join button; the lobby is rendered while !connected.
joinRoom ==
  /\ pc = "run"
  /\ ~connected
  /\ roomId' = roomId
  /\ connectWebSocket(roomId)
  /\ sent' = <<>>
  /\ locks' = 0
  /\ UNCHANGED <<gameVars, connected, fetches, playerId, opponentBoard>>
  /\ UNCHANGED <<lockVars, playerVars, pc>>

\* The room input's onChange: setRoomId(e.target.value); rendered in the lobby.
onChange ==
  /\ pc = "run"
  /\ ~connected
  /\ \E text \in RoomNames : roomId' = text
  /\ sent' = <<>>
  /\ locks' = 0
  /\ UNCHANGED <<gameVars, netVars, socketRoom, fetches, playerId, opponentBoard>>
  /\ UNCHANGED <<lockVars, playerVars, pc>>

\* createRoom up to its await: the fetch is issued from the lobby.
createRoom ==
  /\ pc = "run"
  /\ ~connected
  /\ fetches' = fetches + 1
  /\ sent' = <<>>
  /\ locks' = 0
  /\ UNCHANGED <<gameVars, netVars, socketRoom, roomId, playerId, opponentBoard>>
  /\ UNCHANGED <<lockVars, playerVars, pc>>

\* createRoom after its await: setRoomId(newRoomId); connectWebSocket(newRoomId).
\* The continuation runs whenever the response arrives, whatever is rendered.
createRoomResolved ==
  /\ pc = "run"
  /\ fetches > 0
  /\ fetches' = fetches - 1
  /\ \E newRoomId \in RoomNames :
       /\ roomId' = newRoomId
       /\ connectWebSocket(newRoomId)
  /\ sent' = <<>>
  /\ locks' = 0
  /\ UNCHANGED <<gameVars, connected, playerId, opponentBoard>>
  /\ UNCHANGED <<lockVars, playerVars, pc>>

\* createRoom's catch: the request failed and is only logged.
createRoomFailed ==
  /\ pc = "run"
  /\ fetches > 0
  /\ fetches' = fetches - 1
  /\ sent' = <<>>
  /\ locks' = 0
  /\ UNCHANGED <<gameVars, netVars, socketRoom, roomId, playerId, opponentBoard>>
  /\ UNCHANGED <<lockVars, playerVars, pc>>

\* onmessage of socket i, set in connectWebSocket, for the parsed message.
onmessage(i, message) ==
  /\ pc = "run"
  /\ sockets[i] = "OPEN"
  /\ playerId' = IF message.type = "player_id" THEN message.player_id ELSE playerId
  /\ opponentBoard' = IF message.type = "opponent_state"
                       THEN opponentSnapshot(opponentBoard, message.board)
                       ELSE opponentBoard
  /\ sent' = <<>>
  /\ locks' = 0
  /\ UNCHANGED <<gameVars, netVars, socketRoom, fetches, roomId>>
  /\ UNCHANGED <<lockVars, playerVars, pc>>

\* onopen of socket i.
onopen(i) ==
  /\ pc = "run"
  /\ sockets[i] = "CONNECTING"
  /\ sockets' = [sockets EXCEPT ![i] = "OPEN"]
  /\ connected' = TRUE
  /\ sent' = <<>>
  /\ locks' = 0
  /\ UNCHANGED <<gameVars, wsCurrent, sessionVars, lockVars, playerVars, pc>>

\* Mutant of onclose: losing the connection ends the local game.
oncloseEndsGame(i) ==
  /\ pc = "run"
  /\ sockets[i] \in {"CONNECTING", "OPEN"}
  /\ sockets' = [sockets EXCEPT ![i] = "CLOSED"]
  /\ connected' = FALSE
  /\ gameOver' = TRUE
  /\ sent' = <<>>
  /\ locks' = 0
  /\ UNCHANGED <<board, currentPiece, piecePosition, score, gameStarted>>
  /\ UNCHANGED <<wsCurrent, sessionVars, lockVars, playerVars, pc>>

\* onclose of socket i.
onclose(i) ==
  /\ pc = "run"
  /\ sockets[i] \in {"CONNECTING", "OPEN"}
  /\ sockets' = [sockets EXCEPT ![i] = "CLOSED"]
  /\ connected' = FALSE
  /\ sent' = <<>>
  /\ locks' = 0
  /\ UNCHANGED <<gameVars, wsCurrent, sessionVars, lockVars, playerVars, pc>>

Next ==
  \/ Tick
  \/ ArrowLeft
  \/ ArrowRight
  \/ ArrowDown
  \/ ArrowUp
  \/ startGame
  \/ (Len(sockets) < MaxSockets /\ joinRoom)
  \/ \E i \in DOMAIN sockets : onopen(i)
  \/ \E i \in DOMAIN sockets : onclose(i)

\* The game over a quiet session: the user joins by the Join button, the
\* room field is left alone and the peer is silent.
Spec == Init /\ [][Next]_vars

\* The game of the free player, with the interval's ticks delivered fairly.
InitLive ==
  /\ board = EmptyBoard
  /\ currentPiece = Null
  /\ piecePosition = [x |-> 0, y |-> 0]
  /\ score = 0
  /\ gameOver = FALSE
  /\ gameStarted = FALSE
  /\ connected = FALSE
  /\ sockets = <<>>
  /\ wsCurrent = 0
  /\ socketRoom = <<>>
  /\ fetches = 0
  /\ roomId = ""
  /\ playerId = ""
  /\ opponentBoard = EmptyBoard
  /\ sent = <<>>
  /\ linesCleared = 0
  /\ newPiece = Null
  /\ locks = 0
  /\ scriptPos = 0 - 1
  /\ keyIdx = 0
  /\ freeKeys = 0
  /\ freeLocks = 0
  /\ pc = "run"

\* The templates the random source delivers in the free player's game.
LivePieces == {TETROMINOS[1], TETROMINOS[2], TETROMINOS[3]}

LivePlay(Handler) == Handler /\ (locks' = 1 => newPiece' \in LivePieces)

\* The free player's game runs over the one connection of the session.
NextLive ==
  \/ LivePlay(Tick)
  \/ ArrowLeft
  \/ ArrowRight
  \/ LivePlay(ArrowDown)
  \/ ArrowUp
  \/ (startGame /\ currentPiece' \in LivePieces)
  \/ (sockets = <<>> /\ joinRoom)
  \/ \E i \in DOMAIN sockets : onopen(i)
  \/ \E i \in DOMAIN sockets : onclose(i)

\* The interval calls moveDown every 500 ms while the game is started and
\* not over: a tick that stays possible is eventually delivered.
SpecLive == InitLive /\ [][NextLive]_vars /\ WF_vars(LivePlay(Tick))

\* The session with a game in progress: every lobby and socket event, while
\* the player plays the first entry of the script (ArrowLeft, then descents)
\* up to its lock.
NetPlay(Handler) == scriptPos = 1 /\ Handler /\ scriptPos' > 0

NetRoom == Len(sockets) + fetches < MaxNetSockets

NextNet ==
  \/ NetPlay(Tick)
  \/ NetPlay(ArrowLeft)
  \/ NetPlay(ArrowDown)
  \/ (startGame /\ scriptPos' > 0)
  \/ (NetRoom /\ joinRoom)
  \/ onChange
  \/ (NetRoom /\ createRoom)
  \/ createRoomResolved
  \/ createRoomFailed
  \/ \E i \in DOMAIN sockets : onopen(i)
  \/ \E i \in DOMAIN sockets : onclose(i)
  \/ \E i \in DOMAIN sockets : \E message \in Messages : onmessage(i, message)

SpecNet == Init /\ [][NextNet]_vars

\* ------------------------------------------- harness of the pure functions

\* Row patterns of the input boards: empty, complete, and two partial rows.
PureRows ==
  { EmptyRow,
    [c \in 1..BOARD_WIDTH |-> 1],
    [c \in 1..BOARD_WIDTH |-> IF c <= BOARD_WIDTH \div 2 THEN 1 ELSE 0],
    [c \in 1..BOARD_WIDTH |-> c % 2] }

\* The top rows (0-based) at which the window of patterned rows is laid.
WindowTops == {0, (BOARD_HEIGHT - PureDepth) \div 2, BOARD_HEIGHT - PureDepth}

\* The board that is empty but for the rows `rows`, laid from row `top` down.
WindowBoard(top, rows) ==
  [r \in 1..BOARD_HEIGHT |->
     IF r - top \in 1..Len(rows) THEN rows[r - top] ELSE EmptyRow]

\* Input boards of the line-clearing function.
PureBoards ==
  {WindowBoard(top, rows) : top \in WindowTops, rows \in [1..PureDepth -> PureRows]}

\* Input boards of the placement functions: one pattern through the window.
PlaceBoards ==
  {WindowBoard(top, [i \in 1..PureDepth |-> p]) : top \in WindowTops, p \in PureRows}

\* The 7 templates and their rotations.
AllShapes ==
  UNION {{t, rotated(t), rotated(rotated(t)), rotated(rotated(rotated(t)))} :
           t \in getRandomPiece}

\* Offsets given to canMove: every column and row of the grid and a margin.
PureOffsets ==
  [x : (0 - 1)..BOARD_WIDTH, y : (0 - 4)..(BOARD_HEIGHT - 1)]

\* The phases of the rotation run: the number of rotations applied.
RotPhases == <<"rot0", "rot1", "rot2", "rot3", "rot4">>

\* The inputs: a board to clear, a board with a shape to place, or a
\* template to rotate (newPiece keeps the template as it was given).
InitPure ==
  /\ \/ /\ pc = "in"
        /\ board \in PureBoards
        /\ currentPiece = Null
        /\ piecePosition = [x |-> 0, y |-> 0]
        /\ newPiece = Null
     \/ /\ pc = "in"
        /\ board \in PlaceBoards
        /\ currentPiece \in AllShapes
        /\ piecePosition \in PureOffsets
        /\ newPiece = Null
     \/ /\ pc = RotPhases[1]
        /\ board = EmptyBoard
        /\ currentPiece \in getRandomPiece
        /\ piecePosition = [x |-> startX(currentPiece), y |-> 0]
        /\ newPiece = currentPiece
  /\ score = 0
  /\ gameOver = FALSE
  /\ gameStarted = FALSE
  /\ connected = FALSE
  /\ sockets = <<>>
  /\ wsCurrent = 0
  /\ socketRoom = <<>>
  /\ fetches = 0
  /\ roomId = ""
  /\ playerId = ""
  /\ opponentBoard = EmptyBoard
  /\ sent = <<>>
  /\ linesCleared = 0
  /\ locks = 0
  /\ scriptPos = 0
  /\ keyIdx = 0
  /\ freeKeys = 0
  /\ freeLocks = 0

\* canMove, then the placement part of placePiece.
PurePlace ==
  /\ pc = "in"
  /\ currentPiece # Null
  /\ canMove(board, currentPiece, piecePosition.x, piecePosition.y)
  /\ board' = addPiece(board, currentPiece, piecePosition.x, piecePosition.y)
  /\ pc' = "placed"
  /\ UNCHANGED <<currentPiece, piecePosition, score, gameOver, gameStarted>>
  /\ UNCHANGED <<netVars, sessionVars, sent, lockVars, locks, playerVars>>

\* The line-clearing part of placePiece.
PureClear ==
  /\ pc \in {"in", "placed"}
  /\ \E cleared \in {clearLines(board)} :
       /\ board' = cleared.board
       /\ linesCleared' = cleared.linesCleared
  /\ pc' = "cleared"
  /\ UNCHANGED <<currentPiece, piecePosition, score, gameOver, gameStarted>>
  /\ UNCHANGED <<netVars, sessionVars, sent, newPiece, locks, playerVars>>

\* The rotation of ArrowUp, applied to the shape once more.
PureRotate ==
  /\ \E k \in 1..(Len(RotPhases) - 1) : pc = RotPhases[k] /\ pc' = RotPhases[k + 1]
  /\ currentPiece' = rotated(currentPiece)
  /\ UNCHANGED <<board, piecePosition, score, gameOver, gameStarted>>
  /\ UNCHANGED <<netVars, sessionVars, sent, lockVars, locks, playerVars>>

NextPure == PurePlace \/ PureClear \/ PureRotate

SpecPure == InitPure /\ [][NextPure]_vars

\* ------------------------------------------------------------ properties

\* The engine is Running: a piece is active and the game is not over.
Running == pc = "run" /\ currentPiece # Null /\ ~gameOver

\* A step of startGame.
StartStep == ~gameStarted /\ gameStarted'

\* The piece can legally occupy its spawn position on board b.
SpawnFree(b, piece) ==
  \A row \in 1..Len(piece) : \A col \in 1..Len(piece[row]) :
    piece[row][col] = 1 =>
      b[row][(BOARD_WIDTH \div 2) - (Len(piece[1]) \div 2) + col] = 0

\* Number of complete rows of board b.
CompleteRows(b) == {r \in 1..Len(b) : \A c \in 1..Len(b[r]) : b[r][c] = 1}

\* Number of Settled cells of board b.
SettledCells(b) ==
  Cardinality({rc \in (1..Len(b)) \X (1..BOARD_WIDTH) : b[rc[1]][rc[2]] = 1})

\* C1: after every lock whose resulting board (piece placed, rows cleared)
\* leaves no legal spawn position for the newly chosen piece, the engine is
\* in GameOver and, when connected, the lock sent one game_over message and
\* no game_state message.
C1_BlockedSpawnEndsGame ==
  (locks = 1 /\ ~SpawnFree(board, newPiece)) =>
    /\ gameOver
    /\ connected => (Len(sent) = 1 /\ sent[1].type = "game_over")

\* C2: a lock ends the game only if the newly chosen piece cannot legally
\* occupy its spawn position on the board that results from that lock.
C2_GameOverOnlyOnBlockedSpawn ==
  (locks = 1 /\ gameOver) => ~SpawnFree(board, newPiece)

C4_MessageCarriesScoreAfterLock ==
  (locks = 1 /\ Len(sent) = 1) => sent[1].score = score

\* C5: a lock that completes k rows changes the score by exactly 100 * k,
\* start sets it to 0, every other handler leaves it unchanged; the score is
\* always a non-negative multiple of 100.
C5_ScoreSteps ==
  pc = "run" =>
    /\ score' = IF locks' = 1
                THEN score + 100 * Cardinality(CompleteRows(
                       addPiece(board, currentPiece, piecePosition.x, piecePosition.y)))
                ELSE IF StartStep THEN 0 ELSE score
    /\ score' >= 0
    /\ score' % 100 = 0
    /\ StartStep \/ score' >= score

IncompleteRow(row) == \E c \in 1..Len(row) : row[c] # 1
KeptRows(b) == SelectSeq(b, IncompleteRow)

\* C6: clearing a board with k complete rows yields k empty rows on top,
\* then the other rows in their original order; the count reported is k and
\* the grid stays BOARD_HEIGHT x BOARD_WIDTH.  With k = 0 the board is
\* unchanged; with k = 1 every row above the cleared one moves down by one.
C6_ClearStep ==
  (pc # "cleared" /\ pc' = "cleared") =>
    LET k == Cardinality(CompleteRows(board))
    IN /\ board' = [i \in 1..k |-> [c \in 1..10 |-> 0]] \o KeptRows(board)
       /\ linesCleared' = k
       /\ Len(board') = 20
       /\ \A r \in 1..20 : Len(board'[r]) = 10
       /\ k = 0 => board' = board
       /\ k = 1 =>
            LET full == CHOOSE r \in CompleteRows(board) : TRUE
            IN /\ \A r \in 1..(full - 1) : board'[r + 1] = board[r]
               /\ \A r \in (full + 1)..20 : board'[r] = board[r]
               /\ \A c \in 1..10 : board'[1][c] = 0

C6_ClearEqualsReference == [][C6_ClearStep]_vars

\* C6 witness: four rows were cleared and settled rows remain below the
\* empty rows.
C6_Witness ==
  /\ pc = "cleared" /\ linesCleared = 4
  /\ \E r \in 1..BOARD_HEIGHT : \E c \in 1..BOARD_WIDTH : board[r][c] = 1

\* The occupied cells of the piece that lie at rows >= 0 when it is at row y.
CellsFromRowZero(piece, y) ==
  {rc \in (1..Len(piece)) \X (1..Len(piece[1])) :
     piece[rc[1]][rc[2]] = 1 /\ y + rc[1] - 1 >= 0}

\* C7: placing a shape at an offset canMove accepts turns Empty cells into
\* Settled and nothing else: every covered cell was Empty, every other cell
\* is unchanged, and the Settled cells grow by the number of occupied cells
\* of the shape at rows >= 0.
C7_PlaceStep ==
  (pc = "in" /\ pc' = "placed") =>
    /\ \A r \in 0..(BOARD_HEIGHT - 1) : \A c \in 0..(BOARD_WIDTH - 1) :
         IF Covers(currentPiece, piecePosition.x, piecePosition.y, r, c)
         THEN board[r + 1][c + 1] = 0 /\ board'[r + 1][c + 1] = 1
         ELSE board'[r + 1][c + 1] = board[r + 1][c + 1]
    /\ SettledCells(board') =
         SettledCells(board)
           + Cardinality(CellsFromRowZero(currentPiece, piecePosition.y))

C7_PlaceWritesOnlyEmptyCells == [][C7_PlaceStep]_vars

\* C7 witness: a shape was placed partly above the grid, beside Settled
\* cells of the top row.
C7_Witness ==
  /\ pc = "placed" /\ piecePosition.y < 0
  /\ SettledCells(board) > 4
  /\ Cardinality(CellsFromRowZero(currentPiece, piecePosition.y)) \in 1..3

\* C8: outside Running (no active piece, or GameOver) no handler but start
\* changes board, active shape, offset, score or game state, and no message
\* is sent; GameOver is left only by start.
C8_HaltedStep ==
  (pc = "run" /\ (currentPiece = Null \/ gameOver)) =>
    \/ StartStep
    \/ /\ board' = board
       /\ currentPiece' = currentPiece
       /\ piecePosition' = piecePosition
       /\ score' = score
       /\ gameOver' = gameOver
       /\ gameStarted' = gameStarted
       /\ sent' = <<>>

C8_NothingMovesOutsideRunning == [][C8_HaltedStep]_vars

\* C8 witness: a handler ran after GameOver (the message of the terminal
\* lock is no longer the last handler's output) and the engine is still in
\* GameOver.
C8_Witness == pc = "run" /\ gameOver /\ locks = 0 /\ connected /\ sent = <<>>

\* C9: start yields an all-Empty 20x10 board, score 0, gameOver false, game
\* started, and one of the 7 templates at x = floor(10/2) - floor(width/2),
\* y = 0, a legal position on that board; the connection state is unchanged.
C9_StartStep ==
  StartStep =>
    /\ Len(board') = 20
    /\ \A r \in 1..20 : Len(board'[r]) = 10 /\ \A c \in 1..10 : board'[r][c] = 0
    /\ score' = 0
    /\ ~gameOver'
    /\ gameStarted'
    /\ \E i \in 1..7 : currentPiece' = TETROMINOS[i]
    /\ piecePosition' = [x |-> (10 \div 2) - (Len(currentPiece'[1]) \div 2), y |-> 0]
    /\ canMove(board', currentPiece', piecePosition'.x, piecePosition'.y)
    /\ UNCHANGED netVars

KeyFrame ==
  /\ board' = board
  /\ score' = score
  /\ gameOver' = gameOver
  /\ gameStarted' = gameStarted
  /\ sent' = <<>>

\* C10: while Running a lateral move changes x by -1/+1 if and only if
\* canMove holds for the shifted offset, and a rotation replaces the shape if
\* and only if canMove holds for the rotated shape; a rejected move changes
\* nothing and sends nothing, a legal one changes nothing but x or the shape.
C10_KeyStep ==
  Running =>
    /\ \A dx \in {0 - 1, 1} :
         Lateral(IF dx = 1 THEN "ArrowRight" ELSE "ArrowLeft", dx) =>
           /\ KeyFrame
           /\ currentPiece' = currentPiece
           /\ piecePosition' =
                IF canMove(board, currentPiece, piecePosition.x + dx, piecePosition.y)
                THEN [x |-> piecePosition.x + dx, y |-> piecePosition.y]
                ELSE piecePosition
    /\ ArrowUp =>
         /\ KeyFrame
         /\ piecePosition' = piecePosition
         /\ currentPiece' =
              IF canMove(board, rotated(currentPiece), piecePosition.x, piecePosition.y)
              THEN rotated(currentPiece)
              ELSE currentPiece

C10_IllegalMovesAreRejected == [][C10_KeyStep]_vars

\* C10 witness: the fourth ArrowLeft of the first scripted piece was pressed
\* at the left wall, where canMove rejects the move.
C10_Witness ==
  /\ Running /\ scriptPos = 1 /\ keyIdx = 4
  /\ piecePosition.x = 0
  /\ ~canMove(board, currentPiece, piecePosition.x - 1, piecePosition.y)

\* A step in which socket i handles an opponent_state message with grid g.
OpponentStateStep(i, g) == onmessage(i, [type |-> "opponent_state", board |-> g])

\* C11: after an opponent_state message with grid G is handled the opponent
\* snapshot, and the grid rendered for it, equal G exactly, whatever the
\* previous snapshot and the local engine's state; no other step changes the
\* snapshot, so it always equals the grid of the last message handled.
C11_SnapshotStep ==
  /\ \A i \in DOMAIN sockets : \A g \in OpponentGrids :
       OpponentStateStep(i, g) =>
         /\ opponentBoard' = g
         /\ renderBoard(opponentBoard', TRUE, currentPiece', piecePosition') = g
  /\ opponentBoard' # opponentBoard =>
       \E i \in DOMAIN sockets : \E g \in OpponentGrids : OpponentStateStep(i, g)

C11_SnapshotIsLastGrid == [][C11_SnapshotStep]_vars

\* C11 witness: while a piece is falling the snapshot is the single-cell
\* grid, which the half-row grid would cover if snapshots were merged.
C11_Witness ==
  /\ Running /\ piecePosition.y > 0
  /\ opponentBoard \in OpponentGrids
  /\ opponentBoard[BOARD_HEIGHT][2] = 0

\* C12: a connection open or close and an inbound message of any type leave
\* board, active shape, offset, score and game state unchanged; a message of
\* an unknown type changes no state at all.
C12_NetworkStep ==
  \A i \in DOMAIN sockets :
    /\ (onopen(i) \/ onclose(i) \/ \E message \in Messages : onmessage(i, message))
         => UNCHANGED gameVars
    /\ onmessage(i, [type |-> "ping"]) => UNCHANGED <<gameVars, netVars, sessionVars>>

C12_NetworkLeavesGameAlone == [][C12_NetworkStep]_vars

\* C12 witness: the connection was lost and a snapshot and a player id were
\* received while the first piece is still falling.
C12_Witness ==
  /\ Running /\ piecePosition.y > 0
  /\ \E i \in DOMAIN sockets : sockets[i] = "CLOSED"
  /\ playerId # "" /\ opponentBoard # EmptyBoard

\* No connection is open.
NoOpen == \A i \in DOMAIN sockets : sockets[i] # "OPEN"

\* C13: while no connection is open a lock sends nothing and still completes:
\* the piece is placed, complete rows are cleared and scored, and the lock
\* respawns a piece or ends the game; no handler but a lock ever sends, so the
\* message of a lock made while disconnected is never sent later.
C13_DisconnectedStep ==
  /\ (NoOpen /\ locks' = 1) =>
       LET placed == addPiece(board, currentPiece, piecePosition.x, piecePosition.y)
           k == Cardinality(CompleteRows(placed))
       IN /\ sent' = <<>>
          /\ board' = [i \in 1..k |-> EmptyRow] \o KeptRows(placed)
          /\ score' = score + 100 * k
          /\ \/ gameOver'
             \/ /\ currentPiece' = newPiece'
                /\ piecePosition' = [x |-> startX(newPiece'), y |-> 0]
  /\ locks' = 0 => sent' = <<>>

IsGrid(b) ==
  /\ DOMAIN b = 1..20
  /\ \A r \in 1..20 : DOMAIN b[r] = 1..10 /\ \A c \in 1..10 : b[r][c] \in {0, 1}

\* C14: the board is always 20 rows of 10 cells over {0, 1}; the Active
\* marker 2 exists only in the rendered grid; every grid sent in a game_state
\* message is a 20x10 grid over {0, 1}.
C14_BoardIsGrid ==
  pc = "run" =>
    /\ IsGrid(board)
    /\ \A k \in DOMAIN sent : sent[k].type = "game_state" => IsGrid(sent[k].board)

\* C14 witness: a game_state message was sent for a board with Settled cells
\* while the rendered grid shows the active piece as 2.
C14_Witness ==
  /\ Len(sent) = 1 /\ sent[1].type = "game_state"
  /\ SettledCells(sent[1].board) > 0
  /\ \E r \in 1..BOARD_HEIGHT : \E c \in 1..BOARD_WIDTH :
       renderBoard(board, FALSE, currentPiece, piecePosition)[r][c] = 2

\* C16: while the current connection lives the stored room identifier is the
\* room that connection was requested for, and a recorded player identifier
\* never changes.
C16_SessionStep ==
  /\ (wsCurrent' # 0 /\ sockets'[wsCurrent'] # "CLOSED") =>
       roomId' = socketRoom'[wsCurrent']
  /\ playerId # "" => playerId' = playerId

C16_SessionIdentityImmutable == [][C16_SessionStep]_vars

\* C17: in every Running state of a started game the active piece is in a
\* legal position on the current board.
C17_ActivePieceLegal ==
  (Running /\ gameStarted) =>
    canMove(board, currentPiece, piecePosition.x, piecePosition.y)

\* C18: in every Running state, hence at every lock, each occupied cell of
\* the active piece has its column in [0, 10) and its row in [0, 20).
C18_PieceInsideGrid ==
  Running =>
    \A row \in 1..Len(currentPiece) : \A col \in 1..Len(currentPiece[row]) :
      currentPiece[row][col] # 0 =>
        /\ piecePosition.x + col - 1 \in 0..9
        /\ piecePosition.y + row - 1 \in 0..19

\* C18 witness: a piece was locked against the left wall on the bottom row.
C18_Witness ==
  /\ pc = "run" /\ locks = 1
  /\ board[BOARD_HEIGHT][1] = 1 /\ board[BOARD_HEIGHT][4] = 1

\* C19: connected is true exactly while the socket in ws.current is open, a
\* send is attempted only on an open socket, and a lock made while that
\* socket is open sends.
C19_FlagDescribesCurrentSocket ==
  pc = "run" =>
    /\ connected <=> (wsCurrent # 0 /\ sockets[wsCurrent] = "OPEN")
    /\ sent # <<>> => sockets[wsCurrent] = "OPEN"
    /\ (locks = 1 /\ wsCurrent # 0 /\ sockets[wsCurrent] = "OPEN") => sent # <<>>

\* Number of occupied cells of a shape.
OccupiedCells(piece) ==
  Cardinality({rc \in (1..Len(piece)) \X (1..Len(piece[1])) : piece[rc[1]][rc[2]] = 1})

\* C15: each rotation of an r x c shape yields a c x r shape with as many
\* occupied cells, and the fourth rotation of a template yields the template
\* again, dimensions and occupancy pattern alike.
C15_RotateStep ==
  (\E k \in 1..4 : pc = RotPhases[k] /\ pc' = RotPhases[k + 1]) =>
    /\ Len(currentPiece') = Len(currentPiece[1])
    /\ \A r \in 1..Len(currentPiece') : Len(currentPiece'[r]) = Len(currentPiece)
    /\ OccupiedCells(currentPiece') = OccupiedCells(currentPiece)
    /\ pc' = "rot4" => currentPiece' = newPiece

C15_FourRotationsAreIdentity == [][C15_RotateStep]_vars

\* C15 witness: the S template has been rotated four times.
C15_Witness == pc = "rot4" /\ newPiece = TETROMINOS[4] /\ currentPiece = TETROMINOS[4]

\* C20: a tick fires only while the game is started and not over, and either
\* moves the piece down one row or locks it, after which a new piece is active
\* at row 0 or the game is over; the row of the active piece stays within
\* 0..19, so a piece takes at most 20 ticks.
C20_TickStep ==
  /\ Tick =>
       /\ gameStarted /\ ~gameOver
       /\ \/ /\ locks' = 0
             /\ piecePosition' = [x |-> piecePosition.x, y |-> piecePosition.y + 1]
             /\ currentPiece' = currentPiece /\ board' = board
          \/ /\ locks' = 1
             /\ \/ gameOver'
                \/ currentPiece' = newPiece' /\ piecePosition'.y = 0
  /\ (Running /\ gameStarted) => piecePosition.y \in 0..(BOARD_HEIGHT - 1)

====
